---- MODULE Spec2Model ----
(***************************************************************************)
(* Model of src/cai.py: the TimeBasedParser line classifier and the        *)
(* process_workbook block accumulator.                                     *)
(*                                                                         *)
(* A text (Python str) is a sequence of characters; each character is a    *)
(* one-token string.  Characters outside ASCII are written as tokens:      *)
(*   "LB" = U+3010 (left black lenticular bracket)                         *)
(*   "RB" = U+3011 (right black lenticular bracket)                        *)
(*   "fen","xiang" / "zhuan","fa" / "jie","shu" = the two characters of    *)
(*   each of the three Chinese end markers of line 15.                     *)
(***************************************************************************)
EXTENDS Integers, Sequences, FiniteSets, TLC

VARIABLES
    rows,            \* the sheet: sequence of rows, each a tuple of cells
    pc,              \* position in process_workbook
    row_idx,         \* 1-based index of the next row of the for loop
    results,         \* list of Records
    current_time,    \* current timestamp text, or None
    content_lines,   \* buffered content lines of the current block
    time_data_count, \* defaultdict(int): timestamp -> number of Records
    output,          \* rows of the output file, or NoFile
    outcome,         \* "running", or the value process_workbook returned
    rerun,           \* FALSE in the first call, TRUE in a second call
    prev,            \* what the previous call left (its Records and counts)
    content_rows,    \* history: row index of each buffered content line
    origin,          \* history: per Record, the row indexes of its lines
    text,            \* argument of a classifier call
    fn,              \* classifier function called ("" before the call)
    fn_out           \* value the classifier call returned

vars == <<rows, pc, row_idx, results, current_time, content_lines,
          time_data_count, output, outcome, rerun, prev, content_rows,
          origin, text, fn, fn_out>>

run_vars == <<rows, pc, row_idx, results, current_time, content_lines,
              time_data_count, output, outcome, rerun, prev, content_rows,
              origin>>

call_vars == <<text, fn, fn_out>>

-----------------------------------------------------------------------------
(* Bounds of the model *)

MaxRows == 3
MaxTimeLen == 7
MaxTitleLen == 5
MaxMarkerLen == 7

-----------------------------------------------------------------------------
(* Python values *)

None == <<"None">>
NoFile == <<"NoFile">>
NoValue == <<"NoValue">>

Min(S) == CHOOSE x \in S : \A y \in S : x <= y

\* characters str.strip() removes
Whitespace == {" ", "\t", "\n", "\r"}

\* characters \d matches
Digits == {"0", "1", "2", "3", "4", "5", "6", "7", "8", "9"}

RECURSIVE lstrip(_)
lstrip(s) ==
    IF s # <<>> /\ Head(s) \in Whitespace THEN lstrip(Tail(s)) ELSE s

RECURSIVE rstrip(_)
rstrip(s) ==
    IF s # <<>> /\ s[Len(s)] \in Whitespace
    THEN rstrip(SubSeq(s, 1, Len(s) - 1))
    ELSE s

strip(s) == rstrip(lstrip(s))

\* text.split('\n'): always at least one line
RECURSIVE split(_)
split(s) ==
    LET nl == {i \in 1..Len(s) : s[i] = "\n"}
    IN  IF nl = {} THEN <<s>>
        ELSE LET i == Min(nl)
             IN  <<SubSeq(s, 1, i - 1)>> \o split(SubSeq(s, i + 1, Len(s)))

join_nosep(lines) ==
    LET RECURSIVE cat(_)
        cat(ls) == IF ls = <<>> THEN <<>> ELSE Head(ls) \o cat(Tail(ls))
    IN  cat(lines)

\* '\n'.join(lines)
RECURSIVE join(_)
join(lines) ==
    IF lines = <<>> THEN <<>>
    ELSE IF Len(lines) = 1 THEN lines[1]
    ELSE lines[1] \o <<"\n">> \o join(Tail(lines))

-----------------------------------------------------------------------------
(* TimeBasedParser *)

DigitsAt(t, i, n) ==
    /\ i + n - 1 <= Len(t)
    /\ \A k \in i..(i + n - 1) : t[k] \in Digits

\* Python's $: the end of the string, or just before a newline that ends it
AtEnd(t, i) ==
    \/ i = Len(t) + 1
    \/ (i = Len(t) /\ t[i] = "\n")

ColonAt(t, i) == i <= Len(t) /\ t[i] = ":"

time_pattern_unanchored(t) ==
    \E h \in 1..2 :
        /\ DigitsAt(t, 1, h)
        /\ ColonAt(t, h + 1)
        /\ DigitsAt(t, h + 2, 2)

\* time_pattern.match(t), time_pattern = ^\d{1,2}:\d{2}(:\d{2})?$
time_pattern_match(t) ==
    \E h \in 1..2 :
        /\ DigitsAt(t, 1, h)
        /\ ColonAt(t, h + 1)
        /\ DigitsAt(t, h + 2, 2)
        /\ \/ AtEnd(t, h + 4)
           \/ /\ ColonAt(t, h + 4)
              /\ DigitsAt(t, h + 5, 2)
              /\ AtEnd(t, h + 7)

is_time(t) == time_pattern_match(strip(t))

end_markers ==
    { <<"fen", "xiang">>, <<"zhuan", "fa">>, <<"jie", "shu">>,
      <<"-", "-", "-", "-", "-", "-">> }

is_end_marker_contains(t) ==
    \E m \in end_markers : \E i \in 0..Len(strip(t)) :
        /\ i + Len(m) <= Len(strip(t))
        /\ SubSeq(strip(t), i + 1, i + Len(m)) = m

is_end_marker(t) == strip(t) \in end_markers

\* title_pattern = [LB[](.*?)[]RB] : the two character classes
OpenBr == {"LB", "["}
CloseBr == {"]", "RB"}

ClosersSameStyle(line, i) ==
    {j \in (i + 1)..Len(line) :
        /\ line[j] = (IF line[i] = "LB" THEN "RB" ELSE "]")
        /\ \A k \in (i + 1)..(j - 1) : line[k] # "\n"}

\* positions where a span opened at i can close ('.' does not match a newline)
Closers(line, i) ==
    {j \in (i + 1)..Len(line) :
        /\ line[j] \in CloseBr
        /\ \A k \in (i + 1)..(j - 1) : line[k] # "\n"}

\* title_pattern.search(line): <<start, end>> of the leftmost span, its
\* interior the shortest possible; <<0, 0>> when there is no match
title_search(line) ==
    LET starts == {i \in 1..Len(line) :
                      line[i] \in OpenBr /\ Closers(line, i) # {}}
    IN  IF starts = {} THEN <<0, 0>>
        ELSE LET s == Min(starts) IN <<s, Min(Closers(line, s))>>

\* title_pattern.sub('', line): every non-overlapping span removed
RECURSIVE title_sub(_)
title_sub(line) ==
    LET m == title_search(line)
    IN  IF m[1] = 0 THEN line
        ELSE SubSeq(line, 1, m[1] - 1)
             \o title_sub(SubSeq(line, m[2] + 1, Len(line)))

extract_title_content(t) ==
    LET lines == split(t)
    IN  IF lines = <<>> THEN [title |-> <<>>, content |-> <<>>]
        ELSE LET first_line == lines[1]
                 m == title_search(first_line)
             IN  IF m[1] = 0
                 THEN [title |-> <<>>, content |-> strip(join(lines))]
                 ELSE [title |-> strip(SubSeq(first_line, m[1] + 1, m[2] - 1)),
                       content |->
                           strip(join(<<strip(title_sub(first_line))>>
                                      \o Tail(lines)))]

-----------------------------------------------------------------------------
(* process_workbook *)

\* row[0] if row and row[0] is not None else ""
cell_value(row) == IF row # <<>> /\ row[1] # None THEN row[1] ELSE <<>>

str_value(row) == strip(cell_value(row))

\* truth value of a str-or-None
Truthy(x) == x # None /\ x # <<>>

Record(t, title, content) ==
    [ID |-> t, time |-> t, title |-> title, content |-> content]

\* time_data_count[t] += 1 on a defaultdict(int)
Increment(cnt, t) ==
    IF t \in DOMAIN cnt THEN [cnt EXCEPT ![t] = @ + 1] ELSE cnt @@ (t :> 1)

\* time_data_count[t] read as a defaultdict(int)
Count(cnt, t) == IF t \in DOMAIN cnt THEN cnt[t] ELSE 0

EmptyCount == [t \in {} |-> 0]

FinalizeAlways(rs, cnt, cur, lines) ==
    LET tc == extract_title_content(join(lines))
    IN  [results |-> Append(rs, Record(cur, tc.title, tc.content)),
         count |-> Increment(cnt, cur)]

FinalizeMerge(rs, cnt, cur, lines) ==
    LET tc == extract_title_content(join(lines))
        same == {i \in 1..Len(rs) : rs[i].time = cur}
    IN  IF tc.content = <<>> THEN [results |-> rs, count |-> cnt]
        ELSE IF same # {}
        THEN [results |->
                  [rs EXCEPT ![Min(same)].content = @ \o <<"\n">> \o tc.content],
              count |-> Increment(cnt, cur)]
        ELSE [results |-> Append(rs, Record(cur, tc.title, tc.content)),
              count |-> Increment(cnt, cur)]

FinalizeFront(rs, cnt, cur, lines) ==
    LET tc == extract_title_content(join(lines))
    IN  IF tc.content # <<>>
        THEN [results |-> <<Record(cur, tc.title, tc.content)>> \o rs,
              count |-> Increment(cnt, cur)]
        ELSE [results |-> rs, count |-> cnt]

FinalizeNoCount(rs, cnt, cur, lines) ==
    LET tc == extract_title_content(join(lines))
    IN  IF tc.content # <<>>
        THEN [results |-> Append(rs, Record(cur, tc.title, tc.content)),
              count |-> cnt]
        ELSE [results |-> rs, count |-> cnt]

\* the block saved at a timestamp row, at an end marker and after the loop
\* (the same statements at lines 75-83, 95-103 and 112-120)
Finalize(rs, cnt, cur, lines) ==
    LET tc == extract_title_content(join(lines))
    IN  IF tc.content # <<>>
        THEN [results |-> Append(rs, Record(cur, tc.title, tc.content)),
              count |-> Increment(cnt, cur)]
        ELSE [results |-> rs, count |-> cnt]

SaveBlockNoTimeCheck ==
    IF content_lines # <<>>
    THEN Finalize(results, time_data_count, current_time, content_lines)
    ELSE [results |-> results, count |-> time_data_count]

\* "if content_lines and current_time:" followed by the block above
SaveBlock ==
    IF content_lines # <<>> /\ Truthy(current_time)
    THEN Finalize(results, time_data_count, current_time, content_lines)
    ELSE [results |-> results, count |-> time_data_count]

\* history of the rows a new Record was built from
OriginAfter(f) ==
    IF Len(f.results) > Len(results) THEN Append(origin, content_rows)
    ELSE origin

AtRow == pc = "loop" /\ row_idx <= Len(rows)

LoadKeepsBlock ==
    /\ pc = "start"
    /\ pc' = "loop"
    /\ row_idx' = 1
    /\ results' = <<>>
    /\ time_data_count' = EmptyCount
    /\ origin' = <<>>
    /\ UNCHANGED <<rows, current_time, content_lines, content_rows, output,
                   outcome, rerun, prev, call_vars>>

\* lines 54-62: the workbook opens and the locals are created
Load ==
    /\ pc = "start"
    /\ pc' = "loop"
    /\ row_idx' = 1
    /\ results' = <<>>
    /\ current_time' = None
    /\ content_lines' = <<>>
    /\ time_data_count' = EmptyCount
    /\ content_rows' = <<>>
    /\ origin' = <<>>
    /\ UNCHANGED <<rows, output, outcome, rerun, prev, call_vars>>

LoadFailRaises ==
    /\ pc = "start"
    /\ pc' = "aborted"
    /\ outcome' = "raised"
    /\ UNCHANGED <<rows, row_idx, results, current_time, content_lines,
                   time_data_count, output, rerun, prev, content_rows,
                   origin, call_vars>>

\* load_workbook raises: the handler of lines 145-147 returns False
LoadFail ==
    /\ pc = "start"
    /\ pc' = "aborted"
    /\ outcome' = "False"
    /\ UNCHANGED <<rows, row_idx, results, current_time, content_lines,
                   time_data_count, output, rerun, prev, content_rows,
                   origin, call_vars>>

TimeRowStampsNew ==
    /\ AtRow
    /\ is_time(str_value(rows[row_idx]))
    /\ LET f == IF content_lines # <<>> /\ Truthy(current_time)
                THEN Finalize(results, time_data_count,
                              str_value(rows[row_idx]), content_lines)
                ELSE [results |-> results, count |-> time_data_count]
       IN  /\ results' = f.results
           /\ time_data_count' = f.count
           /\ origin' = OriginAfter(f)
    /\ current_time' = str_value(rows[row_idx])
    /\ content_lines' = <<>>
    /\ content_rows' = <<>>
    /\ row_idx' = row_idx + 1
    /\ UNCHANGED <<rows, pc, output, outcome, rerun, prev, call_vars>>

\* lines 72-88
TimeRow ==
    /\ AtRow
    /\ is_time(str_value(rows[row_idx]))
    /\ LET f == SaveBlock
       IN  /\ results' = f.results
           /\ time_data_count' = f.count
           /\ origin' = OriginAfter(f)
    /\ current_time' = str_value(rows[row_idx])
    /\ content_lines' = <<>>
    /\ content_rows' = <<>>
    /\ row_idx' = row_idx + 1
    /\ UNCHANGED <<rows, pc, output, outcome, rerun, prev, call_vars>>

MarkerRowResetsTime ==
    /\ AtRow
    /\ ~is_time(str_value(rows[row_idx]))
    /\ str_value(rows[row_idx]) # <<>>
    /\ is_end_marker(str_value(rows[row_idx]))
    /\ LET f == SaveBlock
       IN  /\ results' = f.results
           /\ time_data_count' = f.count
           /\ origin' = OriginAfter(f)
    /\ current_time' = None
    /\ content_lines' = <<>>
    /\ content_rows' = <<>>
    /\ row_idx' = row_idx + 1
    /\ UNCHANGED <<rows, pc, output, outcome, rerun, prev, call_vars>>

MarkerRowKeepsBuffer ==
    /\ AtRow
    /\ ~is_time(str_value(rows[row_idx]))
    /\ str_value(rows[row_idx]) # <<>>
    /\ is_end_marker(str_value(rows[row_idx]))
    /\ LET f == SaveBlock
       IN  /\ results' = f.results
           /\ time_data_count' = f.count
           /\ origin' = OriginAfter(f)
    /\ row_idx' = row_idx + 1
    /\ UNCHANGED <<rows, pc, current_time, content_lines, content_rows,
                   output, outcome, rerun, prev, call_vars>>

\* lines 91-105
MarkerRow ==
    /\ AtRow
    /\ ~is_time(str_value(rows[row_idx]))
    /\ str_value(rows[row_idx]) # <<>>
    /\ is_end_marker(str_value(rows[row_idx]))
    /\ LET f == SaveBlock
       IN  /\ results' = f.results
           /\ time_data_count' = f.count
           /\ origin' = OriginAfter(f)
    /\ content_lines' = <<>>
    /\ content_rows' = <<>>
    /\ row_idx' = row_idx + 1
    /\ UNCHANGED <<rows, pc, current_time, output, outcome, rerun, prev,
                   call_vars>>

\* lines 91, 106-108
ContentRow ==
    /\ AtRow
    /\ ~is_time(str_value(rows[row_idx]))
    /\ str_value(rows[row_idx]) # <<>>
    /\ ~is_end_marker(str_value(rows[row_idx]))
    /\ ~is_time(str_value(rows[row_idx]))
    /\ content_lines' = Append(content_lines, str_value(rows[row_idx]))
    /\ content_rows' = Append(content_rows, row_idx)
    /\ row_idx' = row_idx + 1
    /\ UNCHANGED <<rows, pc, results, current_time, time_data_count, output,
                   outcome, rerun, prev, origin, call_vars>>

BlankRowEndsBlock ==
    /\ AtRow
    /\ ~is_time(str_value(rows[row_idx]))
    /\ str_value(rows[row_idx]) = <<>>
    /\ content_lines' = <<>>
    /\ content_rows' = <<>>
    /\ row_idx' = row_idx + 1
    /\ UNCHANGED <<rows, pc, results, current_time, time_data_count, output,
                   outcome, rerun, prev, origin, call_vars>>

\* line 91 false: an empty str_value falls through to the next row
BlankRow ==
    /\ AtRow
    /\ ~is_time(str_value(rows[row_idx]))
    /\ str_value(rows[row_idx]) = <<>>
    /\ row_idx' = row_idx + 1
    /\ UNCHANGED <<rows, pc, results, current_time, content_lines,
                   time_data_count, output, outcome, rerun, prev,
                   content_rows, origin, call_vars>>

\* lines 110-120: the last block, after the loop
Flush ==
    /\ pc = "loop"
    /\ row_idx > Len(rows)
    /\ LET f == SaveBlock
       IN  /\ results' = f.results
           /\ time_data_count' = f.count
           /\ origin' = OriginAfter(f)
    /\ pc' = "report"
    /\ UNCHANGED <<rows, row_idx, current_time, content_lines, output,
                   outcome, rerun, prev, content_rows, call_vars>>

SaveEmptyTable ==
    /\ pc = "report"
    /\ results = <<>>
    /\ output' = results
    /\ outcome' = "True"
    /\ pc' = "done"
    /\ UNCHANGED <<rows, row_idx, results, current_time, content_lines,
                   time_data_count, rerun, prev, content_rows, origin,
                   call_vars>>

\* lines 123-140: DataFrame(results).to_excel(output_path): one row per
\* Record, in list order; returns True
Save ==
    /\ pc = "report"
    /\ results # <<>>
    /\ output' = results
    /\ outcome' = "True"
    /\ pc' = "done"
    /\ UNCHANGED <<rows, row_idx, results, current_time, content_lines,
                   time_data_count, rerun, prev, content_rows, origin,
                   call_vars>>

\* line 138 raises: the handler of lines 145-147 returns False
SaveFail ==
    /\ pc = "report"
    /\ results # <<>>
    /\ outcome' = "False"
    /\ pc' = "done"
    /\ UNCHANGED <<rows, row_idx, results, current_time, content_lines,
                   time_data_count, output, rerun, prev, content_rows,
                   origin, call_vars>>

\* lines 123, 142-143: no Record, nothing is written, returns False
NothingExtracted ==
    /\ pc = "report"
    /\ results = <<>>
    /\ outcome' = "False"
    /\ pc' = "done"
    /\ UNCHANGED <<rows, row_idx, results, current_time, content_lines,
                   time_data_count, output, rerun, prev, content_rows,
                   origin, call_vars>>

\* process_workbook is called once more on the same sheet
Rerun ==
    /\ pc \in {"done", "aborted"}
    /\ ~rerun
    /\ rerun' = TRUE
    /\ prev' = [pc |-> pc, results |-> results, count |-> time_data_count,
                outcome |-> outcome]
    /\ outcome' = "running"
    /\ pc' = "start"
    /\ UNCHANGED <<rows, row_idx, results, current_time, content_lines,
                   time_data_count, output, content_rows, origin, call_vars>>

-----------------------------------------------------------------------------
(* Inputs *)

\* all sequences over S of length at most n
SeqsUpTo(S, n) == UNION {[1..k -> S] : k \in 0..n}

T1200 == <<"1", "2", ":", "0", "0">>
T900 == <<"9", ":", "0", "0">>
T1030 == <<"1", "0", ":", "3", "0">>
JieShu == <<"jie", "shu">>
Dashes == <<"-", "-", "-", "-", "-", "-">>
PlanToday == <<"LB", "P", "l", "a", "n", "RB", "T", "o", "d", "a", "y">>
DoX == <<"d", "o", " ", "X">>
DoY == <<"d", "o", " ", "Y">>

\* rows of a sheet: a timestamp, a timestamp with blanks around it, content,
\* content with a second column, an end marker, a null cell, a content line
\* that is a title only, a blank cell, a row without cells
SampleRows ==
    { <<T1200>>, <<<<" ">> \o T900 \o <<" ">>>>, <<<<"a">>>>,
      <<<<"b">>, T1200>>, <<JieShu>>, <<None>>, <<<<"[", "T", "]">>>>,
      <<<<" ">>>>, <<>> }

EndMarkerRows == << <<T1200>>, <<<<"a">>>>, <<JieShu>>, <<<<"b">>>> >>
DuplicateTimeRows == << <<T1200>>, <<<<"a">>>>, <<T1200>>, <<<<"b">>>> >>
EndToEndRows ==
    << <<T900>>, <<PlanToday>>, <<DoX>>, <<Dashes>>, <<T1030>>, <<DoY>> >>

Sheets ==
    SeqsUpTo(SampleRows, MaxRows)
        \cup {EndMarkerRows, DuplicateTimeRows, EndToEndRows}

NoCall ==
    /\ text = <<>>
    /\ fn = ""
    /\ fn_out = NoValue

NotStarted ==
    /\ pc = "start"
    /\ row_idx = 0
    /\ results = <<>>
    /\ current_time = None
    /\ content_lines = <<>>
    /\ time_data_count = EmptyCount
    /\ output = NoFile
    /\ outcome = "running"
    /\ rerun = FALSE
    /\ prev = [pc |-> "none", results |-> <<>>, count |-> EmptyCount,
               outcome |-> "none"]
    /\ content_rows = <<>>
    /\ origin = <<>>

Init ==
    /\ rows \in Sheets
    /\ NotStarted
    /\ NoCall

Next ==
    \/ Load
    \/ LoadFail
    \/ TimeRow
    \/ MarkerRow
    \/ ContentRow
    \/ BlankRow
    \/ Flush
    \/ Save
    \/ SaveFail
    \/ NothingExtracted
    \/ Rerun

Spec == Init /\ [][Next]_vars

-----------------------------------------------------------------------------
(* Calls of the classifier functions on their own *)

Ex905 == <<"9", ":", "0", "5">>
Ex090530 == <<"0", "9", ":", "0", "5", ":", "3", "0">>
Ex95 == <<"9", ":", "5">>
ExTime905 == <<"t", "i", "m", "e", ":", " ", "9", ":", "0", "5">>
Ex2599 == <<"2", "5", ":", "9", "9">>
ExPadded == <<"\t", "0", "9", ":", "0", "5", ":", "3", "0", " ", "\n">>
ExTwoLines == <<"9", ":", "0", "5", "\n", "9">>

TimeExamples ==
    {Ex905, Ex090530, Ex95, ExTime905, Ex2599, ExPadded, ExTwoLines}

TimeTexts == SeqsUpTo({"1", ":", " ", "a"}, MaxTimeLen) \cup TimeExamples

ExAB == <<"[", "A", "]", "[", "B", "]">>
ExIntro == <<"LB", "I", "n", "t", "r", "o", "RB", "\n", "h", "e", "l", "l", "o">>
ExSecondLine == <<"a", "\n", "[", "T", "]", "b">>

ExFullFull == <<"LB", "t", "e", "x", "t", "RB">>
ExHalfHalf == <<"[", "t", "e", "x", "t", "]">>
ExFullHalf == <<"LB", "t", "e", "x", "t", "]">>
ExHalfFull == <<"[", "t", "e", "x", "t", "RB">>

ExTwoSpans == <<"[", "A", "]", " ", "x", " ", "[", "B", "]">>

TitleExamples ==
    {ExAB, ExIntro, ExSecondLine, PlanToday, ExFullFull, ExHalfHalf,
     ExFullHalf, ExHalfFull, ExTwoSpans}

TitleTexts ==
    SeqsUpTo({"[", "]", "LB", "RB", "a", " ", "\n"}, MaxTitleLen)
        \cup TitleExamples

ExFenXiang == <<"fen", "xiang">>
ExZhuanFa == <<" ", "zhuan", "fa", "\n">>
ExFenXiangZhuanFa == <<"fen", "xiang", "zhuan", "fa">>
ExJieShuLe == <<"jie", "shu", "l", "e">>

MarkerExamples == {ExFenXiang, ExZhuanFa, ExFenXiangZhuanFa, ExJieShuLe}

MarkerTexts ==
    SeqsUpTo({"jie", "shu", "-", " "}, MaxMarkerLen) \cup MarkerExamples

NoRun ==
    /\ rows = <<>>
    /\ NotStarted

\* parser.is_time(text)
IsTimeCall ==
    /\ fn = ""
    /\ fn' = "is_time"
    /\ fn_out' = is_time(text)
    /\ UNCHANGED <<text, run_vars>>

\* parser.is_end_marker(text)
IsEndMarkerCall ==
    /\ fn = ""
    /\ fn' = "is_end_marker"
    /\ fn_out' = is_end_marker(text)
    /\ UNCHANGED <<text, run_vars>>

\* parser.extract_title_content(text)
ExtractCall ==
    /\ fn = ""
    /\ fn' = "extract_title_content"
    /\ fn_out' = extract_title_content(text)
    /\ UNCHANGED <<text, run_vars>>

InitClassifier ==
    /\ NoRun
    /\ text \in TimeTexts \cup MarkerTexts
    /\ fn = ""
    /\ fn_out = NoValue

NextClassifier ==
    \/ IsTimeCall
    \/ IsEndMarkerCall

SpecClassifier == InitClassifier /\ [][NextClassifier]_vars

InitTitle ==
    /\ NoRun
    /\ text \in TitleTexts
    /\ fn = ""
    /\ fn_out = NoValue

NextTitle ==
    \/ ExtractCall

SpecTitle == InitTitle /\ [][NextTitle]_vars

-----------------------------------------------------------------------------
(* Properties of process_workbook *)

\* the row the loop is about to process, trimmed
ThisRow == str_value(rows[row_idx])

\* what extract_title_content returns for the buffered block
Cleaned == extract_title_content(join(content_lines))

\* a step that saves the current block: a timestamp row, an end marker or the
\* end of the rows, with a timestamp set and a non-empty buffer
AtFinalize ==
    /\ pc = "loop"
    /\ content_lines # <<>>
    /\ Truthy(current_time)
    /\ \/ row_idx > Len(rows)
       \/ row_idx <= Len(rows) /\ (is_time(ThisRow) \/ is_end_marker(ThisRow))

Finished == pc \in {"report", "done"}

\* the rows are one timestamp followed by blank rows only
TimeThenBlanks ==
    /\ rows # <<>>
    /\ is_time(str_value(rows[1]))
    /\ \A i \in 2..Len(rows) : str_value(rows[i]) = <<>>

\* C1: every Record of results has non-empty content; a step that finalizes a
\* block adds one Record exactly when the cleaned content is non-empty and
\* adds nothing otherwise; a timestamp followed only by blank rows gives no
\* Record.
C1_NonEmptyContent ==
    /\ [](\A i \in 1..Len(results) : results[i].content # <<>>)
    /\ [](Finished /\ TimeThenBlanks => results = <<>>)
    /\ [][AtFinalize =>
            /\ (Cleaned.content # <<>>) <=> (Len(results') = Len(results) + 1)
            /\ (Cleaned.content = <<>>) <=> (results' = results)]_vars

\* C1 witness: the end-of-input flush has met a block whose cleaned content
\* is empty and has emitted nothing.
C1_Witness ==
    /\ pc = "report"
    /\ content_lines # <<>>
    /\ Truthy(current_time)
    /\ Cleaned.content = <<>>
    /\ results = <<>>

RecA == Record(T1200, <<>>, <<"a">>)
RecB == Record(T1200, <<>>, <<"b">>)

\* C2: an end-marker row saves the current block when a timestamp is set and
\* the buffer is non-empty, always empties the buffer and keeps the current
\* timestamp; rows 12:00 / a / end marker / b give Record "a" at the marker
\* and Record "b" at the end of input, both under 12:00.
C2_EndMarker ==
    /\ [][(AtRow /\ ~is_time(ThisRow) /\ is_end_marker(ThisRow)) =>
            /\ current_time' = current_time
            /\ content_lines' = <<>>
            /\ results' =
                 IF content_lines # <<>> /\ Truthy(current_time)
                    /\ Cleaned.content # <<>>
                 THEN Append(results,
                             Record(current_time, Cleaned.title, Cleaned.content))
                 ELSE results]_vars
    /\ [](rows = EndMarkerRows /\ pc = "loop" /\ row_idx = 4 =>
            results = <<RecA>> /\ current_time = T1200 /\ content_lines = <<>>)
    /\ [](rows = EndMarkerRows /\ Finished => results = <<RecA, RecB>>)

\* C2 witness: the run over 12:00 / a / end marker / b has ended with two
\* Records under the same timestamp.
C2_Witness ==
    /\ rows = EndMarkerRows
    /\ pc = "done"
    /\ Len(results) = 2
    /\ results[1].time = results[2].time

\* C3: a finalize with non-empty content appends a new Record after the ones
\* already there, also when a Record with the same time exists; rows
\* 12:00 / a / 12:00 / b give two Records "a", "b" under 12:00 and a count of 2.
C3_NoMerge ==
    /\ [][(AtFinalize /\ Cleaned.content # <<>>) =>
            results' = Append(results,
                              Record(current_time, Cleaned.title, Cleaned.content))]_vars
    /\ [](rows = DuplicateTimeRows /\ Finished =>
            /\ results = <<RecA, RecB>>
            /\ Count(time_data_count, T1200) = 2)

\* C3 witness: the run over 12:00 / a / 12:00 / b has ended with two Records
\* of equal time and a count of 2.
C3_Witness ==
    /\ rows = DuplicateTimeRows
    /\ pc = "done"
    /\ Len(results) = 2
    /\ results[1].time = results[2].time
    /\ Count(time_data_count, T1200) = 2

\* C5: the rows 9:00 / [Plan]Today / do X / ------ / 10:30 / do Y give
\* exactly the Records {9:00, Plan, "Today\ndo X"} and {10:30, "", "do Y"}.
C5_EndToEnd ==
    (rows = EndToEndRows /\ Finished) =>
        results =
            << [ID |-> T900, time |-> T900,
                title |-> <<"P", "l", "a", "n">>,
                content |-> <<"T", "o", "d", "a", "y", "\n", "d", "o", " ", "X">>],
               [ID |-> T1030, time |-> T1030, title |-> <<>>, content |-> DoY] >>

\* C5 witness: the end-to-end rows have been processed and saved.
C5_Witness ==
    /\ rows = EndToEndRows
    /\ pc = "done"
    /\ outcome = "True"
    /\ Len(output) = 2

\* the trimmed texts of the rows a Record was built from
OriginLines(i) ==
    [k \in 1..Len(origin[i]) |-> str_value(rows[origin[i][k]])]

\* C8: each Record is built from its own rows, the Records are in the order
\* of the rows of their blocks, and the output file holds the Records, one
\* row each, in that order.
C8_SourceOrder ==
    /\ Len(origin) = Len(results)
    /\ \A i \in 1..Len(results) :
          /\ origin[i] # <<>>
          /\ results[i].content =
                 extract_title_content(join(OriginLines(i))).content
    /\ \A i \in 1..Len(origin) : \A j \in 1..Len(origin) :
          i < j => \A a \in 1..Len(origin[i]) : \A b \in 1..Len(origin[j]) :
                      origin[i][a] < origin[j][b]
    /\ (pc = "done" /\ outcome = "True") => output = results

\* C8 witness: two Records of different blocks have been written.
C8_Witness ==
    /\ pc = "done"
    /\ outcome = "True"
    /\ Len(output) = 2
    /\ output[1] # output[2]
    /\ origin[1][Len(origin[1])] < origin[2][1]

NoTimeRow == \A i \in 1..Len(rows) : ~is_time(str_value(rows[i]))

\* C9: with no Record the run writes nothing and returns False in the normal
\* way; a sheet without a timestamp row ends with no Record.
C9_NothingExtracted ==
    /\ [][(pc = "report" /\ results = <<>>) =>
            (output' = output /\ outcome' = "False" /\ pc' = "done")]_vars
    /\ [](Finished /\ NoTimeRow => results = <<>>)
    /\ []((pc = "done" /\ ~rerun /\ results = <<>>) =>
            (output = NoFile /\ outcome = "False"))

\* C9 witness: a sheet with a timestamp and a content row whose block has
\* empty cleaned content has ended: no file, False.
C9_Witness ==
    /\ pc = "done"
    /\ ~rerun
    /\ ~NoTimeRow
    /\ content_lines # <<>>
    /\ results = <<>>
    /\ output = NoFile
    /\ outcome = "False"

\* C10: a second run over the same rows ends with the same Records, in the
\* same order, and the same counts as the first.
C10_Deterministic ==
    (Finished /\ rerun /\ prev.pc = "done") =>
        (results = prev.results /\ time_data_count = prev.count)

\* C10 witness: two runs have ended, each with the same two Records.
C10_Witness ==
    /\ pc = "done"
    /\ rerun
    /\ prev.pc = "done"
    /\ Len(results) = 2
    /\ results = prev.results

-----------------------------------------------------------------------------
(* Properties of the classifier functions *)

\* t is 1 or 2 digits, a colon, 2 digits and optionally a colon and 2 digits
TimeShape(t) ==
    /\ Len(t) \in {4, 5, 7, 8}
    /\ LET h == IF Len(t) \in {4, 7} THEN 1 ELSE 2
       IN  /\ \A k \in 1..h : t[k] \in Digits
           /\ t[h + 1] = ":"
           /\ t[h + 2] \in Digits
           /\ t[h + 3] \in Digits
           /\ Len(t) > h + 3 =>
                 (t[h + 4] = ":" /\ t[h + 5] \in Digits /\ t[h + 6] \in Digits)

\* s is whitespace, then a text of the timestamp shape, then whitespace
TrimmedTimeShape(s) ==
    \E a \in 0..Len(s) : \E b \in 0..(Len(s) - a) :
        /\ \A k \in 1..a : s[k] \in Whitespace
        /\ \A k \in (Len(s) - b + 1)..Len(s) : s[k] \in Whitespace
        /\ TimeShape(SubSeq(s, a + 1, Len(s) - b))

\* C6: is_time(t) is true exactly when t, trimmed, is in full 1-2 digits,
\* a colon, 2 digits and optionally a colon and 2 digits; "9:05", "09:05:30"
\* and "25:99" are timestamps, "9:5" and "time: 9:05" are not.
C6_IsTime ==
    fn = "is_time" =>
        /\ fn_out <=> TrimmedTimeShape(text)
        /\ text \in {Ex905, Ex090530, Ex2599} => fn_out
        /\ text \in {Ex95, ExTime905} => ~fn_out

\* C6 witness: is_time has accepted a text with whitespace around the
\* timestamp.
C6_Witness ==
    /\ fn = "is_time"
    /\ fn_out = TRUE
    /\ text # strip(text)

\* the line without its first bracketed span, every other character kept
RemoveFirstSpan(line) ==
    LET m == title_search(line)
    IN  IF m[1] = 0 THEN line
        ELSE SubSeq(line, 1, m[1] - 1) \o SubSeq(line, m[2] + 1, Len(line))

FirstLine == split(text)[1]

FirstSpan == title_search(FirstLine)

\* C4: when the first line has bracketed spans, the title is the trimmed
\* interior of the first one and only that span is removed from the first
\* line; "[A][B]" gives title "A" and cleaned text "[B]".
C4_FirstSpanOnly ==
    fn = "extract_title_content" =>
        /\ FirstSpan[1] # 0 =>
              /\ fn_out.title =
                     strip(SubSeq(FirstLine, FirstSpan[1] + 1, FirstSpan[2] - 1))
              /\ fn_out.content =
                     strip(join(<<strip(RemoveFirstSpan(FirstLine))>>
                                \o Tail(split(text))))
        /\ text = ExAB =>
              (fn_out.title = <<"A">> /\ fn_out.content = <<"[", "B", "]">>)

\* C7: with a bracketed span in the first line the title is its trimmed
\* interior and the content is the text with that span removed; without one
\* the title is empty and the content is the text; the lines after the first
\* are never searched and never changed.  (Content is trimmed as a whole.)
C7_TitleAndContent ==
    fn = "extract_title_content" =>
        /\ FirstSpan[1] # 0 =>
              /\ fn_out.title =
                     strip(SubSeq(FirstLine, FirstSpan[1] + 1, FirstSpan[2] - 1))
              /\ fn_out.content =
                     strip(join(<<RemoveFirstSpan(FirstLine)>>
                                \o Tail(split(text))))
        /\ FirstSpan[1] = 0 =>
              (fn_out.title = <<>> /\ fn_out.content = strip(text))
        /\ text = ExIntro =>
              /\ fn_out.title = <<"I", "n", "t", "r", "o">>
              /\ fn_out.content = <<"h", "e", "l", "l", "o">>

-----------------------------------------------------------------------------
(* Further properties of process_workbook *)

Returned == pc \in {"done", "aborted"}

\* C11: a failure to read the workbook or to write the output file ends the
\* run with the value False, never with an exception; a read failure writes
\* nothing.
C11_FailuresCaught ==
    /\ [](Returned => outcome \in {"True", "False"})
    /\ [](pc = "aborted" => outcome = "False")
    /\ []((pc = "aborted" /\ ~rerun) => output = NoFile)
    /\ [][(pc = "start" /\ pc' = "aborted") => output' = output]_vars
    /\ [][(pc = "report" /\ results # <<>> /\ outcome' # "True") =>
            (pc' = "done" /\ outcome' = "False")]_vars

\* C11 witness: reading a sheet that holds a Record has failed: the run has
\* returned False and no file exists.
C11_Witness ==
    /\ pc = "aborted"
    /\ ~rerun
    /\ rows = EndMarkerRows
    /\ outcome = "False"
    /\ output = NoFile

\* t is raw without the whitespace at its two ends
TrimOf(raw, t) ==
    /\ t = <<>> \/ (t[1] \notin Whitespace /\ t[Len(t)] \notin Whitespace)
    /\ \E a \in 0..Len(raw) : \E b \in 0..(Len(raw) - a) :
          /\ \A k \in 1..a : raw[k] \in Whitespace
          /\ \A k \in (Len(raw) - b + 1)..Len(raw) : raw[k] \in Whitespace
          /\ t = SubSeq(raw, a + 1, Len(raw) - b)

\* C14: at a timestamp row the current block is saved first exactly when a
\* timestamp is set and the buffer is non-empty, and under the old timestamp;
\* after the row the current timestamp is the row's trimmed text and the
\* buffer is empty.
C14_TimestampRow ==
    [][(AtRow /\ is_time(ThisRow)) =>
          /\ TrimOf(rows[row_idx][1], current_time')
          /\ content_lines' = <<>>
          /\ row_idx' = row_idx + 1
          /\ results' =
               IF content_lines # <<>> /\ Truthy(current_time)
                  /\ Cleaned.content # <<>>
               THEN Append(results,
                           Record(current_time, Cleaned.title, Cleaned.content))
               ELSE results
          /\ time_data_count' =
               IF content_lines # <<>> /\ Truthy(current_time)
                  /\ Cleaned.content # <<>>
               THEN Increment(time_data_count, current_time)
               ELSE time_data_count]_vars

\* C14 witness: a timestamp row has saved the block of the timestamp before
\* it and has become the current timestamp.
C14_Witness ==
    /\ pc = "loop"
    /\ row_idx > 1
    /\ is_time(str_value(rows[row_idx - 1]))
    /\ rows[row_idx - 1][1] # current_time
    /\ content_lines = <<>>
    /\ Len(results) = 1
    /\ results[1].time # current_time

\* row i holds a content line: not blank, not a timestamp, not an end marker
IsContentRow(i) ==
    /\ str_value(rows[i]) # <<>>
    /\ ~is_time(str_value(rows[i]))
    /\ ~is_end_marker(str_value(rows[i]))

\* C15: content rows before the first timestamp row are in no Record: every
\* row a Record is built from has a timestamp row before it, every Record
\* and every count is under a timestamp, and while no timestamp is set there
\* is no Record and no count.
C15_LeadingContentDropped ==
    /\ Len(origin) = Len(results)
    /\ \A i \in 1..Len(origin) : \A k \in 1..Len(origin[i]) :
          \E j \in 1..(origin[i][k] - 1) : is_time(str_value(rows[j]))
    /\ \A i \in 1..Len(results) : is_time(results[i].time)
    /\ \A t \in DOMAIN time_data_count : is_time(t)
    /\ (pc \in {"loop", "report", "done"} /\ current_time = None) =>
          (results = <<>> /\ time_data_count = EmptyCount)

\* C15 witness: a sheet that starts with a content row has ended with a
\* Record, built from later rows only.
C15_Witness ==
    /\ pc = "done"
    /\ rows # <<>>
    /\ IsContentRow(1)
    /\ results # <<>>
    /\ \A i \in 1..Len(origin) : \A k \in 1..Len(origin[i]) : origin[i][k] > 1

\* the row has no first cell, or a null, empty or whitespace-only first cell
IsBlank(row) ==
    \/ row = <<>>
    \/ row[1] = None
    \/ \A k \in 1..Len(row[1]) : row[1][k] \in Whitespace

\* the Records of an accumulator state st = [cur, buf, res] after its block
\* is saved
SavedOf(st) ==
    IF st.buf # <<>> /\ Truthy(st.cur)
    THEN Finalize(st.res, EmptyCount, st.cur, st.buf).results
    ELSE st.res

\* the accumulator state after one more row
AfterRow(st, row) ==
    IF is_time(str_value(row))
    THEN [cur |-> str_value(row), buf |-> <<>>, res |-> SavedOf(st)]
    ELSE IF str_value(row) = <<>> THEN st
    ELSE IF is_end_marker(str_value(row))
    THEN [cur |-> st.cur, buf |-> <<>>, res |-> SavedOf(st)]
    ELSE [st EXCEPT !.buf = Append(@, str_value(row))]

\* the Records a run over the rows rs ends with, from accumulator state st
RECURSIVE RecordsFrom(_, _)
RecordsFrom(st, rs) ==
    IF rs = <<>> THEN SavedOf(st)
    ELSE RecordsFrom(AfterRow(st, Head(rs)), Tail(rs))

WithoutBlanks(rs) == SelectSeq(rs, LAMBDA r : ~IsBlank(r))

\* C16: a blank row leaves the current timestamp, the buffer, the Records and
\* the counts as they were, and the Records of a run are those of the same
\* rows with the blank rows taken out.
C16_BlankRow ==
    /\ [][(AtRow /\ IsBlank(rows[row_idx])) =>
            UNCHANGED <<current_time, content_lines, results,
                        time_data_count>>]_vars
    /\ [](Finished =>
            results = RecordsFrom([cur |-> None, buf |-> <<>>, res |-> <<>>],
                                  WithoutBlanks(rows)))

\* C16 witness: a blank row has been passed between a timestamp and its
\* content row, and the block has been saved.
C16_Witness ==
    /\ pc = "done"
    /\ Len(rows) = 3
    /\ IsBlank(rows[2])
    /\ IsContentRow(3)
    /\ WithoutBlanks(rows) # rows
    /\ Len(results) = 1

\* number of Records whose time is t
RecordsAt(t) == Cardinality({i \in 1..Len(results) : results[i].time = t})

RECURSIVE SumOver(_, _)
SumOver(cnt, keys) ==
    IF keys = {} THEN 0
    ELSE LET t == CHOOSE x \in keys : TRUE
         IN  cnt[t] + SumOver(cnt, keys \ {t})

\* C17: for every timestamp t the count of t is the number of Records whose
\* time is t (0 when the map has no entry), and the counts add up to the
\* number of Records.
C17_CountsMatch ==
    /\ \A t \in DOMAIN time_data_count :
          time_data_count[t] = RecordsAt(t) /\ time_data_count[t] > 0
    /\ \A i \in 1..Len(results) :
          Count(time_data_count, results[i].time) = RecordsAt(results[i].time)
    /\ SumOver(time_data_count, DOMAIN time_data_count) = Len(results)

\* C17 witness: two Records under two different timestamps, each counted
\* once.
C17_Witness ==
    /\ Finished
    /\ Len(results) = 2
    /\ Cardinality(DOMAIN time_data_count) = 2
    /\ \A t \in DOMAIN time_data_count : time_data_count[t] = 1

MaxOf(S) == CHOOSE x \in S : \A y \in S : y <= x

\* the timestamp rows before row i
StampsBefore(i) == {j \in 1..(i - 1) : is_time(str_value(rows[j]))}

\* C19: a Record's ID and time are equal and are the trimmed text of the
\* latest timestamp row before its content rows; its content is built from
\* exactly the content rows of one stretch of rows that holds no timestamp
\* row and no end marker; no row is used by two Records.
C19_RecordProvenance ==
    /\ Len(origin) = Len(results)
    /\ \A i \in 1..Len(results) :
          /\ results[i].ID = results[i].time
          /\ origin[i] # <<>>
          /\ LET first == origin[i][1]
                 last == origin[i][Len(origin[i])]
             IN  /\ StampsBefore(first) # {}
                 /\ TrimOf(rows[MaxOf(StampsBefore(first))][1], results[i].time)
                 /\ \A j \in first..last :
                       /\ ~is_time(str_value(rows[j]))
                       /\ ~is_end_marker(str_value(rows[j]))
                 /\ {origin[i][k] : k \in 1..Len(origin[i])}
                       = {j \in first..last : IsContentRow(j)}
                 /\ \A k \in 1..(Len(origin[i]) - 1) :
                       origin[i][k] < origin[i][k + 1]
          /\ results[i].title =
                 extract_title_content(join(OriginLines(i))).title
          /\ results[i].content =
                 extract_title_content(join(OriginLines(i))).content
    /\ \A i \in 1..Len(origin) : \A j \in 1..Len(origin) :
          i # j => {origin[i][k] : k \in 1..Len(origin[i])}
                      \cap {origin[j][k] : k \in 1..Len(origin[j])} = {}

\* C19 witness: the sheet 12:00 / a / end marker / b has ended: row 2 is in
\* the first Record only, row 4 in the second only, both under row 1's text.
C19_Witness ==
    /\ rows = EndMarkerRows
    /\ Finished
    /\ origin = << <<2>>, <<4>> >>
    /\ results[1].ID = T1200
    /\ results[2].ID = T1200

InRun == pc \in {"loop", "report"}

\* C20: the current timestamp is unset when the loop starts; once a
\* timestamp row has been processed it is set, to a text of the timestamp
\* shape, and no later row of the run unsets it; the Records only grow, the
\* ones already emitted staying as they are.
C20_TimestampStaysSet ==
    /\ []((pc = "loop" /\ row_idx = 1) => current_time = None)
    /\ []((InRun /\ StampsBefore(row_idx) # {}) => Truthy(current_time))
    /\ []((InRun /\ current_time # None) =>
            (current_time # <<>> /\ TimeShape(current_time)))
    /\ [][(InRun /\ Truthy(current_time)) => Truthy(current_time')]_vars
    /\ [][InRun =>
            /\ Len(results') >= Len(results)
            /\ SubSeq(results', 1, Len(results)) = results]_vars

\* C20 witness: an end marker has been processed after a timestamp and a
\* saved block, and the timestamp is still set.
C20_Witness ==
    /\ pc = "loop"
    /\ row_idx > 2
    /\ is_end_marker(str_value(rows[row_idx - 1]))
    /\ Truthy(current_time)
    /\ Len(results) = 1

-----------------------------------------------------------------------------
(* Further properties of the classifier functions *)

\* the four sentinel strings
Sentinels ==
    { <<"fen", "xiang">>, <<"zhuan", "fa">>, <<"jie", "shu">>,
      <<"-", "-", "-", "-", "-", "-">> }

\* s is whitespace, then exactly one sentinel, then whitespace
PaddedSentinel(s) ==
    \E a \in 0..Len(s) : \E b \in 0..(Len(s) - a) :
        /\ \A k \in 1..a : s[k] \in Whitespace
        /\ \A k \in (Len(s) - b + 1)..Len(s) : s[k] \in Whitespace
        /\ SubSeq(s, a + 1, Len(s) - b) \in Sentinels

\* C12: is_end_marker(t) is true exactly when t, trimmed, equals one of the
\* four sentinels; a text that contains or extends a sentinel is no marker.
C12_IsEndMarker ==
    fn = "is_end_marker" =>
        /\ fn_out <=> PaddedSentinel(text)
        /\ text \in {ExFenXiang, ExZhuanFa, Dashes, JieShu} => fn_out
        /\ text \in {ExFenXiangZhuanFa, ExJieShuLe} => ~fn_out

\* C12 witness: is_end_marker has accepted a sentinel with whitespace
\* around it.
C12_Witness ==
    /\ fn = "is_end_marker"
    /\ fn_out = TRUE
    /\ text # strip(text)

\* the text is one bracketed span: an opening bracket, an interior without
\* brackets or newlines, a closing bracket
SingleSpan ==
    /\ Len(text) >= 2
    /\ text[1] \in {"LB", "["}
    /\ text[Len(text)] \in {"]", "RB"}
    /\ \A k \in 2..(Len(text) - 1) : text[k] \notin {"LB", "[", "]", "RB", "\n"}

\* C13: an opening bracket of either style followed by a closing bracket of
\* either style forms the title span; the four pairings around "text" all
\* give the title "text".
C13_AnyPairing ==
    fn = "extract_title_content" =>
        /\ SingleSpan => fn_out.title = strip(SubSeq(text, 2, Len(text) - 1))
        /\ text \in {ExFullFull, ExHalfHalf, ExFullHalf, ExHalfFull} =>
              fn_out.title = <<"t", "e", "x", "t">>

\* C13 witness: a span opened by the full-width bracket and closed by the
\* ASCII one has given the title "text".
C13_Witness ==
    /\ fn = "extract_title_content"
    /\ text = ExFullHalf
    /\ fn_out.title = <<"t", "e", "x", "t">>

\* C18: the bracketed span used as the title is the only part of the first
\* line that is removed: every other character of the first line, whitespace
\* next to the span included, stays, and without a span the first line is
\* unchanged.  (The result is trimmed as a whole.)
C18_RestOfLineKept ==
    fn = "extract_title_content" =>
        /\ fn_out.content =
               strip(join(<<RemoveFirstSpan(FirstLine)>> \o Tail(split(text))))
        /\ text = ExTwoSpans =>
               fn_out.content = <<"x", " ", "[", "B", "]">>

====
